---- MODULE Spec2Model ----
(***************************************************************************)
(* uvzmq: the bridge between a ZeroMQ socket and a libuv loop.             *)
(*                                                                         *)
(* The repository holds three implementations of the bridge, selected by   *)
(* the variable `variant`:                                                 *)
(*   "uvzmq_c"  src/src/uvzmq.c        batched drain, synchronous free     *)
(*   "uvzmq_h"  src/include/uvzmq.h    drain to EAGAIN, ref-counted free   *)
(*   "part_003" src/unnamed/part_003   batched drain, uv_close + free      *)
(* The libuv loop and the ZeroMQ socket are modelled by the interface the  *)
(* bridge consumes: a poll handle is initialised, started, stopped, closed *)
(* (completion on a later loop iteration); a socket is a FIFO queue with   *)
(* an edge-triggered signaling descriptor.                                 *)
(* src/unnamed/part_002 adds a global reaper (one timer on one loop),       *)
(* modelled by ReaperSpec.                                                 *)
(***************************************************************************)
EXTENDS Integers, Sequences, FiniteSets, TLC

\* ---------------------------------------------------------------- bounds
NumBridges == 2
NumSockets == 1
MaxBursts == 1
MaxDrainBursts == 2
NumLoops == 2
MaxPending == 2

\* ------------------------------------------------------ program constants
UVZMQ_OK == 0
UVZMQ_ERROR_INVALID_PARAM == 0 - 1
UVZMQ_ERROR_NOMEM == 0 - 2
UVZMQ_ERROR_INIT_FAILED == 0 - 3
UVZMQ_ERROR_POLL_START_FAILED == 0 - 4
UVZMQ_ERROR_GETSOCKOPT_FAILED == 0 - 5
BatchCap == 1000
RecheckEvery == 50
UV_READABLE == 1

NULL == 0
Variants == {"uvzmq_c", "uvzmq_h", "part_003"}
Bridges == 1..NumBridges
Sockets == 1..NumSockets
\* in the "multi" scenario every bridge polls a socket of its own
OwnSockets == 1..NumBridges
TheLoop == 1
UserDatas == {NULL, 7}
Scenarios == {"lifecycle", "api", "drain", "reaper", "multi"}
\* the loops the program runs a reaper on
ReaperLoops == 1..NumLoops
\* the library call of uvzmq_reaper_start that fails, if any
ReaperFailures == {"none", "malloc", "timer_init", "timer_start"}
CbActs == {"none", "close", "free"}
\* the library call of uvzmq_socket_new that fails, if any
Failures ==
    {"none", "malloc_sock", "getsockopt", "malloc_handle", "poll_init",
     "poll_start"}

VARIABLES
    scenario,   \* what the program and the peer do (see the Reg... sets):
                \* "lifecycle": several bridges and sockets, small bursts;
                \* "api": one socket, null arguments, callbacks and user data;
                \* "drain": one socket, bursts around the batch thresholds;
                \* "reaper": uvzmq_reaper_start / uvzmq_reaper_stop on
                \* several loops
    variant,    \* which implementation is compiled in
    sock,       \* sock[b]: the fields of struct uvzmq_socket_s of bridge b
    balloc,     \* balloc[b]: heap state of the bridge block
    halloc,     \* halloc[h]: heap state of the uv_poll_t block
    hstate,     \* hstate[h]: the handle as the loop sees it
    hdata,      \* hdata[h]: handle->data
    hfd,        \* hfd[h]: the descriptor the handle polls
    hcb,        \* hcb[h]: the close callback given to uv_close
    queue,      \* queue[s]: messages pending on ZeroMQ socket s
    edge,       \* edge[s]: the signaling descriptor of s is readable
    zmq_open,   \* zmq_open[s]: socket s is open (zmq_close not called on it)
    nsent,      \* nsent[s]: messages the peer has sent to s so far
    presend,    \* every send so far happened before the loop ran
    delivered,  \* delivered[b]: messages handed to the user callback of b
    pc,         \* "idle" (main program / loop) or "drain" (in the callback)
    cur,        \* the current (or last) uvzmq_poll_callback invocation
    ev,         \* the last step taken and its result
    crashed,    \* the process has aborted
    bursts,     \* number of peer sends so far
    freeCalled, \* freeCalled[b]: uvzmq_socket_free has been called on b
    freedBy,    \* freedBy[b]: the code that released the bridge block
    loop_ran,   \* the loop has dispatched at least one callback (recorded in
                \* the "drain" scenario, whose properties read it)
    g_reaper,   \* the global reaper: allocated or not, its loop and running
    timer,      \* g_reaper->timer as libuv sees it: state and loop
    rev,        \* the last reaper call and its result
    started,    \* started[l]: a uvzmq_reaper_start(l) has returned 0
    zmq_pending \* cleanup commands of closed ZeroMQ sockets that libzmq has
                \* queued for its reaper and not processed (no I/O threads)

vars == <<scenario, variant, sock, balloc, halloc, hstate, hdata, hfd, hcb,
          zmq_open, queue, edge, nsent, presend, delivered, pc, cur, ev, crashed,
          bursts, freeCalled, freedBy, loop_ran, g_reaper, timer, rev,
          started, zmq_pending>>

reaperVars == <<g_reaper, timer, rev, started, zmq_pending>>

\* static uvzmq_reaper_t* g_reaper = NULL
NoReaper == [alloc |-> FALSE, loop |-> NULL, running |-> 0]

\* a uv_timer_t no loop knows of
NoTimer == [state |-> "none", loop |-> NULL]

Rev(op, lp, rc, fail, flag, calls, ub) ==
    [op |-> op, loop |-> lp, rc |-> rc, fail |-> fail, flag |-> flag,
     calls |-> calls, ub |-> ub # "ok"]

\* struct uvzmq_socket_s after memset(sock, 0, ...)
ZeroSock ==
    [loop |-> NULL, zmq_sock |-> NULL, zmq_fd |-> 0, on_recv |-> FALSE,
     user_data |-> NULL, closed |-> 0, poll_handle |-> NULL, ref_count |-> 0]

\* the signaling descriptor ZMQ_FD reports for socket s
FdOf(s) == 10 + s
SockOfFd(fd) == fd - 10

\* the burst sizes the peer sends in each scenario
BurstSizes ==
    IF scenario = "drain"
    THEN IF bursts = 0 THEN {1, RecheckEvery, BatchCap, BatchCap + 1}
         ELSE {1}
    ELSE {1, 2}

NoDrain ==
    [b |-> NULL, batch_count |-> 0, ncb |-> 0, q0 |-> <<>>, clean |-> TRUE,
     entry_closed |-> 0, cb_teardown |-> FALSE, end |-> ""]

\* ev.ub: the step dereferenced (or freed again) memory already freed;
\* ev.calls: the malloc and free calls of a uvzmq_socket_new step, in order;
\* ev.query: what zmq_getsockopt(ZMQ_EVENTS) answered in a delivery step,
\* "" when the step did not call it
EvUb(op, b, rc, why, flag, ub) ==
    [op |-> op, b |-> b, rc |-> rc, why |-> why, flag |-> flag,
     ub |-> ub # "ok", calls |-> <<>>, query |-> ""]

Ev(op, b, rc, why, flag) == EvUb(op, b, rc, why, flag, "ok")

\* a step by the peer or by the loop that returns nothing to the program
Quiet == Ev("step", NULL, 0, "", 0)

\* the heap, the reactor's handles and the ZeroMQ socket table, as one value
\* the operations transform
Heap ==
    [sock |-> sock, balloc |-> balloc, halloc |-> halloc, hstate |-> hstate,
     hdata |-> hdata, hfd |-> hfd, hcb |-> hcb, freedBy |-> freedBy,
     zmq_open |-> zmq_open]

SetHeap(H) ==
    /\ sock' = H.sock
    /\ balloc' = H.balloc
    /\ halloc' = H.halloc
    /\ hstate' = H.hstate
    /\ hdata' = H.hdata
    /\ hfd' = H.hfd
    /\ hcb' = H.hcb
    /\ freedBy' = H.freedBy
    /\ zmq_open' = H.zmq_open

\* the ZeroMQ sockets that exist in the scenario
ScenarioSockets == IF scenario = "multi" THEN OwnSockets ELSE Sockets

InitCommon ==
    /\ variant \in Variants
    /\ sock = [b \in Bridges |-> ZeroSock]
    /\ balloc = [b \in Bridges |-> "none"]
    /\ halloc = [h \in Bridges |-> "none"]
    /\ hstate = [h \in Bridges |-> "none"]
    /\ hdata = [h \in Bridges |-> NULL]
    /\ hfd = [h \in Bridges |-> 0]
    /\ hcb = [h \in Bridges |-> "none"]
    /\ queue = [s \in ScenarioSockets |-> <<>>]
    /\ edge = [s \in ScenarioSockets |-> FALSE]
    /\ zmq_open = [s \in ScenarioSockets |-> TRUE]
    /\ nsent = [s \in ScenarioSockets |-> 0]
    /\ presend = TRUE
    /\ delivered = [b \in Bridges |-> <<>>]
    /\ pc = "idle"
    /\ cur = NoDrain
    /\ ev = Ev("init", NULL, 0, "", 0)
    /\ crashed = FALSE
    /\ bursts = 0
    /\ freeCalled = [b \in Bridges |-> FALSE]
    /\ freedBy = [b \in Bridges |-> "none"]
    /\ loop_ran = FALSE
    /\ g_reaper = NoReaper
    /\ timer = NoTimer
    /\ rev = Rev("init", NULL, 0, "none", 0, <<>>, "ok")
    /\ started = [l \in ReaperLoops |-> FALSE]
    /\ zmq_pending = 0

Init == scenario = "lifecycle" /\ InitCommon

ApiInit == scenario = "api" /\ InitCommon

DrainInit == scenario = "drain" /\ InitCommon

\* the reaper exists in src/unnamed/part_002 only, whose bridge is the
\* ref-counted one
ReaperInit == scenario = "reaper" /\ InitCommon /\ variant = "uvzmq_h"

\* ------------------------------------------------------------- libuv
\* uv_poll_init: the handle joins the loop's handle queue, not yet polling
uv_poll_init(H, h, fd) ==
    [H EXCEPT !.hstate[h] = "inited", !.hfd[h] = fd]

\* uv_poll_start: the loop polls the descriptor and dispatches the callback
uv_poll_start(H, h) == [H EXCEPT !.hstate[h] = "active"]

\* uv_poll_stop: polling stops at once; the handle stays in the handle queue
uv_poll_stop(H, h) ==
    [H EXCEPT !.hstate[h] = IF @ = "active" THEN "inited" ELSE @]

\* uv_close: polling stops at once; the handle stays with the loop until a
\* later iteration completes the close and runs close_cb
uv_close(H, h, close_cb) ==
    [H EXCEPT !.hstate[h] = "closing", !.hcb[h] = close_cb]

\* free() of a bridge block / of a poll handle block
FreeBridge(H, b, who) ==
    [H EXCEPT !.balloc[b] = "freed", !.freedBy[b] = who]

FreeHandle(H, h) == [H EXCEPT !.halloc[h] = "freed"]

\* ------------------------------------------------------------ bridge
Ret(H, rc) == [H |-> H, rc |-> rc]

\* uvzmq_socket_new: malloc of the bridge block, memset, the fields set from
\* the arguments
AllocSock(H, b, lp, s, on_recv, user_data) ==
    [H EXCEPT !.balloc[b] = "live",
              !.sock[b] = [ZeroSock EXCEPT !.loop = lp,
                                           !.zmq_sock = s,
                                           !.on_recv = on_recv,
                                           !.user_data = user_data,
                                           !.closed = 0,
                                           !.ref_count = 0]]

\* zmq_getsockopt(zmq_sock, ZMQ_FD, &sock->zmq_fd, ...) succeeding
GetFd(H, b) == [H EXCEPT !.sock[b].zmq_fd = FdOf(H.sock[b].zmq_sock)]

\* malloc of the poll handle h, tied to the bridge both ways
AllocHandle(H, b, h) ==
    [H EXCEPT !.halloc[h] = "live",
              !.hdata[h] = b,
              !.sock[b].poll_handle = h]

\* uvzmq_socket_new up to uv_poll_init: both blocks allocated, the fields
\* set, the handle tied to the bridge (the handle of bridge b is b)
AllocBridge(H, b, lp, s, on_recv, user_data) ==
    AllocHandle(GetFd(AllocSock(H, b, lp, s, on_recv, user_data), b), b, b)

\* uvzmq_socket_new with every library call succeeding
NewBridge(H, b, lp, s, on_recv, user_data) ==
    LET H2 == AllocBridge(H, b, lp, s, on_recv, user_data)
        h  == H2.sock[b].poll_handle
    IN  uv_poll_start(uv_poll_init(H2, h, H2.sock[b].zmq_fd), h)

\* uvzmq_socket_new when uv_poll_start fails: uv_close(handle, NULL), then
\* both blocks are freed at once
PollStartFailed(H, b, lp, s, on_recv, user_data) ==
    LET H2 == AllocBridge(H, b, lp, s, on_recv, user_data)
        h  == H2.sock[b].poll_handle
        H3 == uv_close(uv_poll_init(H2, h, H2.sock[b].zmq_fd), h, "none")
    IN  FreeBridge(FreeHandle(H3, h), b, "uvzmq_socket_new")

\* src/src/uvzmq.c returns a code per failure, the other two return -1
ErrCode(v, code) ==
    IF v = "uvzmq_c" THEN code ELSE UVZMQ_ERROR_INVALID_PARAM

\* what uvzmq_socket_new hands back: the status, whether *socket was
\* written and with what, and its malloc and free calls in order
RetNew(H, rc, written, out, calls) ==
    [H |-> H, rc |-> rc, written |-> written, out |-> out, calls |-> calls]

\* (variation) uvzmq_socket_new without the test of the output pointer
uvzmq_socket_new_UncheckedOut(v, H, b, lp, s, on_recv, user_data, out, fail) ==
    IF lp = NULL \/ s = NULL
    THEN RetNew(H, UVZMQ_ERROR_INVALID_PARAM, FALSE, NULL, <<>>)
    ELSE RetNew(NewBridge(H, b, lp, s, on_recv, user_data), UVZMQ_OK,
                TRUE, b, <<"malloc_sock", "malloc_handle">>)

\* (variation) uvzmq_socket_new storing the bridge before the poll handle
\* is set up and keeping the bridge block when the set-up fails
uvzmq_socket_new_EarlyStore(v, H, b, lp, s, on_recv, user_data, out, fail) ==
    IF lp = NULL \/ s = NULL \/ ~out
    THEN RetNew(H, UVZMQ_ERROR_INVALID_PARAM, FALSE, NULL, <<>>)
    ELSE IF fail = "malloc_sock"
    THEN RetNew(H, ErrCode(v, UVZMQ_ERROR_NOMEM), FALSE, NULL, <<>>)
    ELSE IF fail = "none"
    THEN RetNew(NewBridge(H, b, lp, s, on_recv, user_data), UVZMQ_OK,
                TRUE, b, <<"malloc_sock", "malloc_handle">>)
    ELSE RetNew(GetFd(AllocSock(H, b, lp, s, on_recv, user_data), b),
                UVZMQ_ERROR_INVALID_PARAM, TRUE, b, <<"malloc_sock">>)

\* (variation) uvzmq_socket_new leaving handle->data unset
uvzmq_socket_new_NoContext(v, H, b, lp, s, on_recv, user_data, out, fail) ==
    IF lp = NULL \/ s = NULL \/ ~out \/ fail # "none"
    THEN RetNew(H, UVZMQ_ERROR_INVALID_PARAM, FALSE, NULL, <<>>)
    ELSE RetNew([NewBridge(H, b, lp, s, on_recv, user_data)
                    EXCEPT !.hdata[b] = NULL],
                UVZMQ_OK, TRUE, b, <<"malloc_sock", "malloc_handle">>)

\* (variation) uvzmq_socket_new refusing a socket that an earlier bridge,
\* released or not, was registered for
uvzmq_socket_new_OncePerSocket(v, H, b, lp, s, on_recv, user_data, out, fail) ==
    IF lp = NULL \/ s = NULL \/ ~out \/ fail # "none"
       \/ \E b1 \in Bridges : H.balloc[b1] # "none" /\ H.sock[b1].zmq_sock = s
    THEN RetNew(H, UVZMQ_ERROR_INVALID_PARAM, FALSE, NULL, <<>>)
    ELSE RetNew(NewBridge(H, b, lp, s, on_recv, user_data), UVZMQ_OK,
                TRUE, b, <<"malloc_sock", "malloc_handle">>)

\* out: the caller passed a non-null place for the result; fail: the
\* library call that fails, if any
uvzmq_socket_new(v, H, b, lp, s, on_recv, user_data, out, fail) ==
    IF lp = NULL \/ s = NULL \/ ~out
    THEN RetNew(H, UVZMQ_ERROR_INVALID_PARAM, FALSE, NULL, <<>>)
    ELSE IF fail = "malloc_sock"
    THEN RetNew(H, ErrCode(v, UVZMQ_ERROR_NOMEM), FALSE, NULL, <<>>)
    ELSE LET H1 == AllocSock(H, b, lp, s, on_recv, user_data)
             H2 == GetFd(H1, b)
             h  == b
             H3 == AllocHandle(H2, b, h)
         IN
         CASE fail = "getsockopt" ->
                RetNew(FreeBridge(H1, b, "uvzmq_socket_new"),
                       ErrCode(v, UVZMQ_ERROR_GETSOCKOPT_FAILED), FALSE, NULL,
                       <<"malloc_sock", "free_sock">>)
           [] fail = "malloc_handle" ->
                RetNew(FreeBridge(H2, b, "uvzmq_socket_new"),
                       ErrCode(v, UVZMQ_ERROR_NOMEM), FALSE, NULL,
                       <<"malloc_sock", "free_sock">>)
           [] fail = "poll_init" ->
                RetNew(FreeBridge(FreeHandle(H3, h), b, "uvzmq_socket_new"),
                       ErrCode(v, UVZMQ_ERROR_INIT_FAILED), FALSE, NULL,
                       <<"malloc_sock", "malloc_handle", "free_handle",
                         "free_sock">>)
           [] fail = "poll_start" ->
                RetNew(PollStartFailed(H, b, lp, s, on_recv, user_data),
                       ErrCode(v, UVZMQ_ERROR_POLL_START_FAILED), FALSE, NULL,
                       <<"malloc_sock", "malloc_handle", "free_handle",
                         "free_sock">>)
           [] OTHER ->
                RetNew(NewBridge(H, b, lp, s, on_recv, user_data), UVZMQ_OK,
                       TRUE, b, <<"malloc_sock", "malloc_handle">>)

\* (variation) close on a closed bridge opening it again
uvzmq_socket_close_Toggling(H, b) ==
    IF b = NULL THEN Ret(H, UVZMQ_ERROR_INVALID_PARAM)
    ELSE Ret([H EXCEPT !.sock[b].closed = 1 - @], UVZMQ_OK)

\* (variation) close marking every bridge of the same loop closed
uvzmq_socket_close_AllOnLoop(H, b) ==
    IF b = NULL \/ H.sock[b].closed # 0
    THEN Ret(H, UVZMQ_ERROR_INVALID_PARAM)
    ELSE Ret([H EXCEPT !.sock =
                 [x \in Bridges |->
                     IF H.balloc[x] = "live" /\ H.sock[x].loop = H.sock[b].loop
                     THEN [H.sock[x] EXCEPT !.closed = 1]
                     ELSE H.sock[x]]], UVZMQ_OK)

\* (variation) close accepting a bridge that is already closed
uvzmq_socket_close_Repeatable(H, b) ==
    IF b = NULL
    THEN Ret(H, UVZMQ_ERROR_INVALID_PARAM)
    ELSE Ret([H EXCEPT !.sock[b].closed = 1], UVZMQ_OK)

\* (variation) close stopping the poll handle as well
uvzmq_socket_close_Stopping(H, b) ==
    IF b = NULL \/ H.sock[b].closed # 0
    THEN Ret(H, UVZMQ_ERROR_INVALID_PARAM)
    ELSE Ret(uv_poll_stop([H EXCEPT !.sock[b].closed = 1],
                          H.sock[b].poll_handle), UVZMQ_OK)

\* (variation) close treating a null bridge as nothing to do
uvzmq_socket_close_NullAccepted(H, b) ==
    IF b = NULL THEN Ret(H, UVZMQ_OK)
    ELSE IF H.sock[b].closed # 0 THEN Ret(H, UVZMQ_ERROR_INVALID_PARAM)
    ELSE Ret([H EXCEPT !.sock[b].closed = 1], UVZMQ_OK)

uvzmq_socket_close(H, b) ==
    IF b = NULL \/ H.sock[b].closed # 0
    THEN Ret(H, UVZMQ_ERROR_INVALID_PARAM)
    ELSE Ret([H EXCEPT !.sock[b].closed = 1], UVZMQ_OK)

\* (variation) free without the implicit close
CloseIfOpen_Skipped(H, b) == H

\* the first half of every uvzmq_socket_free: close unless already closed
CloseIfOpen(H, b) ==
    IF H.sock[b].closed = 0 THEN uvzmq_socket_close(H, b).H ELSE H

\* src/src/uvzmq.c: uv_poll_stop, free the handle, free the bridge
uvzmq_socket_free_c(H, b) ==
    LET H1 == CloseIfOpen(H, b)
        h  == H1.sock[b].poll_handle
        H2 == IF h # NULL
              THEN [FreeHandle(uv_poll_stop(H1, h), h)
                       EXCEPT !.sock[b].poll_handle = NULL]
              ELSE H1
    IN  Ret(FreeBridge(H2, b, "uvzmq_socket_free"), UVZMQ_OK)

\* src/unnamed/part_003: uv_poll_stop, uv_close(on_close_callback), free the
\* bridge at once
uvzmq_socket_free_p3(H, b) ==
    LET H1 == CloseIfOpen(H, b)
        h  == H1.sock[b].poll_handle
        H2 == IF h # NULL
              THEN [uv_close(uv_poll_stop(H1, h), h, "on_close_callback")
                       EXCEPT !.sock[b].poll_handle = NULL]
              ELSE H1
    IN  Ret(FreeBridge(H2, b, "uvzmq_socket_free"), UVZMQ_OK)

\* (variation) the ref-counted free rejecting a bridge it has torn down
uvzmq_socket_free_h_Once(H, b) ==
    IF H.sock[b].closed # 0 /\ H.sock[b].poll_handle = NULL
    THEN Ret(H, UVZMQ_ERROR_INVALID_PARAM)
    ELSE LET H1 == CloseIfOpen(H, b)
             h  == H1.sock[b].poll_handle
         IN  Ret([uv_close(uv_poll_stop(
                      [H1 EXCEPT !.sock[b].ref_count = @ + 1], h),
                      h, "on_close_callback")
                     EXCEPT !.sock[b].poll_handle = NULL], UVZMQ_OK)

\* (variation) the ref-counted free releasing the bridge block at once
uvzmq_socket_free_h_Immediate(H, b) == uvzmq_socket_free_p3(H, b)

\* (variation) the ref-counted free leaving socket->poll_handle set
uvzmq_socket_free_h_KeepsHandle(H, b) ==
    LET H1 == CloseIfOpen(H, b)
        h  == H1.sock[b].poll_handle
    IN  Ret(uv_close(uv_poll_stop(
                [H1 EXCEPT !.sock[b].ref_count = @ + 1], h),
                h, "on_close_callback"), UVZMQ_OK)

\* src/include/uvzmq.h: take a reference, uv_poll_stop,
\* uv_close(on_close_callback); the bridge block is left to the callback
uvzmq_socket_free_h(H, b) ==
    LET H1 == CloseIfOpen(H, b)
        h  == H1.sock[b].poll_handle
        H2 == IF h # NULL
              THEN [uv_close(uv_poll_stop(
                        [H1 EXCEPT !.sock[b].ref_count = @ + 1], h),
                        h, "on_close_callback")
                       EXCEPT !.sock[b].poll_handle = NULL]
              ELSE H1
    IN  Ret(H2, UVZMQ_OK)

\* (variation) free owning the ZeroMQ socket: zmq_close on it, then the
\* teardown
uvzmq_socket_free_ClosingSocket(v, H, b) ==
    IF b = NULL THEN Ret(H, UVZMQ_ERROR_INVALID_PARAM)
    ELSE LET H1 == [H EXCEPT !.zmq_open[H.sock[b].zmq_sock] = FALSE]
         IN  CASE v = "uvzmq_c" -> uvzmq_socket_free_c(H1, b)
               [] v = "part_003" -> uvzmq_socket_free_p3(H1, b)
               [] OTHER -> uvzmq_socket_free_h(H1, b)

uvzmq_socket_free(v, H, b) ==
    IF b = NULL THEN Ret(H, UVZMQ_ERROR_INVALID_PARAM)
    ELSE CASE v = "uvzmq_c" -> uvzmq_socket_free_c(H, b)
           [] v = "part_003" -> uvzmq_socket_free_p3(H, b)
           [] OTHER -> uvzmq_socket_free_h(H, b)

\* the libuv and free calls uvzmq_socket_free makes, in order
FreeCalls(v, H, b) ==
    IF b = NULL THEN <<>>
    ELSE (IF H.sock[b].poll_handle = NULL THEN <<>>
          ELSE IF v = "uvzmq_c" THEN <<"uv_poll_stop", "free_handle">>
          ELSE <<"uv_poll_stop", "uv_close">>)
         \o (IF v = "uvzmq_h" THEN <<>> ELSE <<"free_sock">>)

\* src/unnamed/part_003: on_close_callback frees the handle
on_close_callback_p3(H, h) == FreeHandle(H, h)

\* (variation) the ref-counted close callback releasing the handle only
on_close_callback_h_HandleOnly(H, h) == FreeHandle(H, h)

\* src/include/uvzmq.h: on_close_callback drops the reference, frees the
\* bridge when it was the last one, then frees the handle
on_close_callback_h(H, h) ==
    LET b  == H.hdata[h]
        H1 == IF b # NULL
              THEN [H EXCEPT !.sock[b].ref_count = @ - 1]
              ELSE H
        H2 == IF b # NULL /\ H1.sock[b].ref_count = 0
              THEN FreeBridge(H1, b, "on_close_callback")
              ELSE H1
    IN  FreeHandle(H2, h)

on_close_callback(v, H, h) ==
    IF v = "part_003" THEN on_close_callback_p3(H, h)
    ELSE on_close_callback_h(H, h)

\* the accessors
uvzmq_get_zmq_socket(b) == IF b # NULL THEN sock[b].zmq_sock ELSE NULL
uvzmq_get_loop(b) == IF b # NULL THEN sock[b].loop ELSE NULL
uvzmq_get_user_data(b) == IF b # NULL THEN sock[b].user_data ELSE NULL
uvzmq_get_fd(b) == IF b # NULL THEN sock[b].zmq_fd ELSE 0 - 1

\* ------------------------------------------------------ poll callback
\* (variation) the entry test without the closed check
EntersDrainIgnoringClosed(sk, events) ==
    events = UV_READABLE /\ sk.on_recv

\* (variation) the entry test without the callback check
EntersDrainIgnoringCallback(sk, events) ==
    sk.closed = 0 /\ events = UV_READABLE

\* uvzmq_poll_callback goes on to receive: not closed, readable, a callback
EntersDrain(sk, events) ==
    sk.closed = 0 /\ events = UV_READABLE /\ sk.on_recv

WhyNoDrain(sk, events) ==
    IF sk.closed # 0 THEN "closed"
    ELSE IF events # UV_READABLE THEN "no_event" ELSE "no_cb"

\* the implementations that count a batch
Batched(v) == v \in {"uvzmq_c", "part_003"}

\* (variation) the pending-input query made after every delivery
AtRecheck_EveryMessage(v, batch_count) == Batched(v)

\* the pending-input query is made after this many deliveries
AtRecheck(v, batch_count) == Batched(v) /\ batch_count % RecheckEvery = 0

\* (variation) leave the loop at every recheck point, whatever the socket
\* reports
StopAtEveryRecheck(v, batch_count, gso_ok, pollin) ==
    IF Batched(v) /\ batch_count % RecheckEvery = 0 THEN "recheck" ELSE ""

\* (variation) the receive loop testing the closed flag before it goes on
StopOnceClosed(v, batch_count, gso_ok, pollin) ==
    IF sock[cur.b].closed # 0 THEN "closed"
    ELSE IF ~Batched(v) THEN ""
    ELSE IF AtRecheck(v, batch_count) /\ gso_ok /\ ~pollin THEN "recheck"
    ELSE IF batch_count >= BatchCap THEN "cap"
    ELSE ""

\* after a delivery: leave the loop ("recheck", "cap") or go on ("")
StopAfterDelivery(v, batch_count, gso_ok, pollin) ==
    IF ~Batched(v) THEN ""
    ELSE IF AtRecheck(v, batch_count) /\ gso_ok /\ ~pollin THEN "recheck"
    ELSE IF batch_count >= BatchCap THEN "cap"
    ELSE ""

\* the zmq_getsockopt(ZMQ_EVENTS) call of a delivery: not made (""), failed,
\* or answered with ZMQ_POLLIN set ("pollin") or clear ("empty")
QueryResult(v, batch_count, gso_ok, pollin) ==
    IF ~AtRecheck(v, batch_count) THEN ""
    ELSE IF ~gso_ok THEN "failed"
    ELSE IF pollin THEN "pollin" ELSE "empty"

\* zmq_msg_recv(ZMQ_DONTWAIT): a message, EAGAIN on an empty queue, or a
\* failure (a signal, or any other error)
RecvOutcomes(s) ==
    (IF queue[s] = <<>> THEN {"EAGAIN"} ELSE {"msg"})
        \cup {"EINTR", "EFAULT"}

\* (variation) a receive failure other than EAGAIN or EINTR closing the
\* bridge
RecvFailed_ClosingBridge(H, b, r) ==
    IF r \in {"EAGAIN", "EINTR"} THEN H ELSE uvzmq_socket_close(H, b).H

\* zmq_msg_recv failed with errno r: zmq_msg_close(&msg) and break, whatever
\* the errno; neither the bridge nor the handle is touched
RecvFailed(H, b, r) == H

\* what the branch taken on errno r calls before its break:
\* src/src/uvzmq.c prints every errno but EAGAIN to stderr,
\* src/unnamed/part_003 leaves the message unclosed on every errno but
\* EAGAIN, src/include/uvzmq.h closes the message and prints nothing
RecvFailCalls(v, r) ==
    CASE v = "uvzmq_c" ->
           IF r = "EAGAIN" THEN <<"zmq_msg_close">>
           ELSE <<"fprintf", "zmq_msg_close">>
      [] v = "part_003" ->
           IF r = "EAGAIN" THEN <<"zmq_msg_close">> ELSE <<>>
      [] OTHER -> <<"zmq_msg_close">>

\* (variation) a received message handed to the user callback twice
Deliver_Twice(ds, m) == Append(Append(ds, m), m)

\* recv_rc >= 0: the message just received is handed to on_recv, once
Deliver(ds, m) == Append(ds, m)

\* what the user callback does with its own bridge
ApplyCb(v, H, b, act) ==
    CASE act = "close" -> uvzmq_socket_close(H, b).H
      [] act = "free" -> uvzmq_socket_free(v, H, b).H
      [] OTHER -> H

heapVars ==
    <<sock, balloc, halloc, hstate, hdata, hfd, hcb, freedBy, zmq_open>>
zmqVars == <<queue, edge, nsent, presend, bursts>>

\* ----------------------------------------------------------- actions
RegLoops == IF scenario = "api" THEN {NULL, TheLoop} ELSE {TheLoop}
RegSockets ==
    CASE scenario = "api" -> {NULL, 1}
      [] scenario = "drain" -> {1}
      [] scenario = "multi" -> OwnSockets
      [] OTHER -> Sockets
RegCallbacks == IF scenario = "api" THEN BOOLEAN ELSE {TRUE}
RegUserDatas == IF scenario = "api" THEN UserDatas ELSE {7}
RegOuts == IF scenario = "api" THEN BOOLEAN ELSE {TRUE}
RegFailures == IF scenario = "api" THEN Failures ELSE {"none"}
RegBridges == IF scenario \in {"drain", "api"} THEN {1} ELSE Bridges
ApiBridges == IF scenario = "api" THEN Bridges \cup {NULL} ELSE Bridges
FreeArgs == IF scenario = "drain" THEN Bridges ELSE Bridges \cup {NULL}
CallbackActs == IF scenario = "lifecycle" THEN CbActs ELSE {"none"}
SendSockets ==
    CASE scenario = "lifecycle" -> Sockets
      [] scenario = "multi" -> OwnSockets
      [] OTHER -> {1}

\* Sockets are interchangeable: the program and the peer use socket s only
\* after every socket below s has been used
Touched(s) ==
    nsent[s] > 0 \/ \E b \in Bridges : balloc[b] # "none" /\ sock[b].zmq_sock = s

\* in the "drain" scenario the program closes and frees only before the
\* peer has sent anything
TeardownAllowed == scenario = "drain" => bursts = 0

\* the main program calls uvzmq_socket_new
Register(b, lp, s, cb, ud, out, fail) ==
    /\ pc = "idle" /\ ~crashed
    /\ balloc[b] = "none"
    /\ \A b2 \in Bridges : b2 < b => balloc[b2] # "none"
    /\ scenario = "multi" => s = b
    /\ \A h \in Bridges : hstate[h] = "active" => s = NULL \/ hfd[h] # FdOf(s)
    /\ \A s2 \in Sockets : s2 < s => Touched(s2)
    /\ LET R == uvzmq_socket_new(variant, Heap, b, lp, s, cb, ud, out, fail)
       IN  /\ SetHeap(R.H)
           /\ ev' = [Ev("new", R.out, R.rc,
                         IF lp = NULL \/ s = NULL \/ ~out THEN "null_arg"
                         ELSE fail,
                         IF R.written THEN 1 ELSE 0)
                         EXCEPT !.calls = R.calls]
    /\ cur' = NoDrain
    /\ UNCHANGED <<reaperVars, scenario, variant, zmqVars, delivered, pc, crashed,
                   freeCalled, loop_ran>>

\* the main program calls uvzmq_socket_close
Close(b) ==
    /\ pc = "idle" /\ ~crashed
    /\ TeardownAllowed
    /\ b # NULL => balloc[b] = "live"
    /\ LET R == uvzmq_socket_close(Heap, b)
       IN  /\ SetHeap(R.H)
           /\ ev' = Ev("close", b, R.rc, "",
                       IF b = NULL THEN 0 ELSE sock[b].closed)
    /\ cur' = NoDrain
    /\ UNCHANGED <<reaperVars, scenario, variant, zmqVars, delivered, pc, crashed,
                   freeCalled, loop_ran>>

\* the main program calls uvzmq_socket_free on a pointer uvzmq_socket_new
\* gave it (or on null); on a pointer whose block is already released the
\* call reads freed memory: it aborts or runs on the stale contents
Free(b, ub) ==
    /\ pc = "idle" /\ ~crashed
    /\ TeardownAllowed
    /\ b # NULL => balloc[b] # "none" /\ freedBy[b] # "uvzmq_socket_new"
    /\ ub \in (IF b # NULL /\ balloc[b] = "freed"
               THEN {"crash", "stale"} ELSE {"ok"})
    /\ IF ub = "crash"
       THEN /\ crashed' = TRUE
            /\ ev' = EvUb("crash", b, 0, "free", 0, ub)
            /\ UNCHANGED <<heapVars, freeCalled>>
       ELSE LET R == uvzmq_socket_free(variant, Heap, b)
            IN  /\ SetHeap(R.H)
                /\ ev' = [EvUb("free", b, R.rc,
                               IF b = NULL THEN ""
                               ELSE IF sock[b].closed = 0 THEN "open"
                               ELSE "closing",
                               IF b # NULL /\ freeCalled[b] THEN 1 ELSE 0, ub)
                          EXCEPT !.calls = FreeCalls(variant, Heap, b)]
                /\ freeCalled' = IF b = NULL THEN freeCalled
                                 ELSE [freeCalled EXCEPT ![b] = TRUE]
                /\ UNCHANGED crashed
    /\ cur' = NoDrain
    /\ UNCHANGED <<reaperVars, scenario, variant, zmqVars, delivered, pc, loop_ran>>

\* the peer sends a burst of n messages to socket s; the descriptor signals
\* when the queue turns from empty to non-empty (in the "drain" scenario the
\* bursts arrive between two callbacks of the loop)
Send(s, n) ==
    /\ ~crashed
    /\ scenario = "drain" => pc = "idle"
    /\ bursts < (IF scenario = "drain" THEN MaxDrainBursts ELSE MaxBursts)
    /\ \A s2 \in Sockets : s2 < s => Touched(s2)
    /\ queue' = [queue EXCEPT
                    ![s] = @ \o [i \in 1..n |-> nsent[s] + i]]
    /\ edge' = [edge EXCEPT ![s] = @ \/ queue[s] = <<>>]
    /\ nsent' = [nsent EXCEPT ![s] = @ + n]
    /\ presend' = (presend /\ ~loop_ran)
    /\ bursts' = bursts + 1
    /\ cur' = IF pc = "idle" THEN NoDrain
              ELSE IF sock[cur.b].zmq_sock = s
              THEN [cur EXCEPT !.clean = FALSE] ELSE cur
    /\ ev' = IF pc = "idle" THEN Quiet ELSE ev
    /\ UNCHANGED <<reaperVars, scenario, variant, heapVars, delivered, pc, crashed,
                   freeCalled, loop_ran>>

\* the loop finds the descriptor of an active handle readable and calls
\* uvzmq_poll_callback, up to its first receive
DispatchPoll(h, events) ==
    /\ pc = "idle" /\ ~crashed
    /\ hstate[h] = "active"
    /\ edge[SockOfFd(hfd[h])]
    /\ LET b  == hdata[h]
           sk == sock[b]
           go == EntersDrain(sk, events)
       IN  /\ pc' = IF go THEN "drain" ELSE "idle"
           /\ cur' = [b |-> b, batch_count |-> 0, ncb |-> 0,
                      q0 |-> queue[sk.zmq_sock], clean |-> TRUE,
                      entry_closed |-> sk.closed, cb_teardown |-> FALSE,
                      end |-> IF go THEN "" ELSE WhyNoDrain(sk, events)]
           /\ ev' = Quiet
    /\ loop_ran' = (loop_ran \/ scenario = "drain")
    /\ UNCHANGED <<reaperVars, scenario, variant, heapVars, zmqVars, delivered, crashed,
                   freeCalled>>

\* one turn of the receive loop of uvzmq_poll_callback
DrainRecv(r, act, gso_ok, ub) ==
    /\ pc = "drain" /\ ~crashed
    /\ LET b  == cur.b
           s  == sock[b].zmq_sock
           bc == IF Batched(variant) THEN cur.batch_count + 1 ELSE 0
       IN
       /\ ub \in (IF balloc[b] = "live" THEN {"ok"} ELSE {"crash", "stale"})
       /\ r \in RecvOutcomes(s)
       /\ act \in (IF r = "msg" /\ balloc[b] = "live" THEN CallbackActs
                   ELSE {"none"})
       /\ gso_ok \in (IF r = "msg" /\ AtRecheck(variant, bc) THEN BOOLEAN
                      ELSE {TRUE})
       /\ IF ub = "crash"
          THEN /\ crashed' = TRUE
               /\ ev' = EvUb("crash", b, 0, "drain", 0, ub)
               /\ UNCHANGED <<heapVars, queue, edge, delivered, pc, cur,
                              freeCalled>>
          ELSE IF r = "msg"
          THEN LET m    == Head(queue[s])
                   H1   == ApplyCb(variant, Heap, b, act)
                   stop == StopAfterDelivery(variant, bc, gso_ok,
                                             Tail(queue[s]) # <<>>)
               IN  /\ queue' = [queue EXCEPT ![s] = Tail(@)]
                   /\ edge' = [edge EXCEPT ![s] = FALSE]
                   /\ delivered' = [delivered EXCEPT ![b] = Deliver(@, m)]
                   /\ SetHeap(H1)
                   /\ freeCalled' = IF act = "free"
                                    THEN [freeCalled EXCEPT ![b] = TRUE]
                                    ELSE freeCalled
                   /\ cur' = [cur EXCEPT
                                 !.batch_count = bc,
                                 !.ncb = @ + 1,
                                 !.cb_teardown = @ \/ act # "none",
                                 !.end = stop]
                   /\ pc' = IF stop = "" THEN "drain" ELSE "idle"
                   /\ ev' = [EvUb("recv_cb", b, m, act, sock[b].closed, ub)
                             EXCEPT !.query =
                                 QueryResult(variant, bc, gso_ok,
                                             Tail(queue[s]) # <<>>),
                                    !.calls =
                                 IF act = "free"
                                 THEN FreeCalls(variant, Heap, b) ELSE <<>>]
                   /\ UNCHANGED crashed
          ELSE /\ edge' = [edge EXCEPT ![s] = @ /\ r # "EAGAIN"]
               /\ cur' = [cur EXCEPT
                             !.end = r,
                             !.clean = @ /\ r = "EAGAIN"]
               /\ pc' = "idle"
               /\ SetHeap(RecvFailed(Heap, b, r))
               /\ ev' = [EvUb("recv_fail", b, 0, r, sock[b].closed, ub)
                         EXCEPT !.calls = RecvFailCalls(variant, r)]
               /\ UNCHANGED <<queue, delivered, crashed, freeCalled>>
    /\ UNCHANGED <<reaperVars, scenario, variant, nsent, presend, bursts, loop_ran>>

\* a later loop iteration completes uv_close on a handle and runs its
\* close callback
RunCloseCb(h, ub) ==
    /\ pc = "idle" /\ ~crashed
    /\ hstate[h] = "closing"
    /\ LET b     == hdata[h]
           deref == hcb[h] = "on_close_callback" /\ variant = "uvzmq_h"
                    /\ b # NULL /\ balloc[b] # "live"
           stale == halloc[h] # "live" \/ deref
       IN
       /\ ub \in (IF stale THEN {"crash", "stale"} ELSE {"ok"})
       /\ IF ub = "crash"
          THEN /\ crashed' = TRUE
               /\ ev' = EvUb("crash", b, 0, "close_cb", 0, ub)
               /\ UNCHANGED heapVars
          ELSE LET H1 == [Heap EXCEPT !.hstate[h] = "closed"]
                   H2 == IF hcb[h] = "on_close_callback"
                         THEN on_close_callback(variant, H1, h) ELSE H1
               IN  /\ SetHeap(H2)
                   /\ ev' = EvUb("step", NULL, 0, "", 0, ub)
                   /\ UNCHANGED crashed
    /\ loop_ran' = (loop_ran \/ scenario = "drain")
    /\ cur' = NoDrain
    /\ UNCHANGED <<reaperVars, scenario, variant, zmqVars, delivered, pc, freeCalled>>

Next ==
    \/ \E b \in RegBridges, lp \in RegLoops, s \in RegSockets,
          cb \in RegCallbacks, ud \in RegUserDatas, out \in RegOuts,
          fail \in RegFailures :
            Register(b, lp, s, cb, ud, out, fail)
    \/ \E b \in ApiBridges : Close(b)
    \/ \E b \in FreeArgs, ub \in {"ok", "crash", "stale"} : Free(b, ub)
    \/ \E s \in SendSockets, n \in BurstSizes : Send(s, n)
    \/ \E h \in Bridges, events \in {0, UV_READABLE} : DispatchPoll(h, events)
    \/ \E r \in {"msg", "EAGAIN", "EINTR", "EFAULT"}, act \in CbActs,
          gso_ok \in BOOLEAN, ub \in {"ok", "crash", "stale"} :
            DrainRecv(r, act, gso_ok, ub)
    \/ \E h \in Bridges, ub \in {"ok", "crash", "stale"} : RunCloseCb(h, ub)

Spec == Init /\ [][Next]_vars

\* ------------------------------------------------------------- reaper
\* the reaper and its timer, as one value the operations transform
Reaper == [g |-> g_reaper, t |-> timer]

RetR(S, rc, calls) == [S |-> S, rc |-> rc, calls |-> calls]

\* uv_timer_init: the handle joins the handle queue of loop lp
uv_timer_init(S, lp) == [S EXCEPT !.t = [state |-> "inited", loop |-> lp]]

\* uv_timer_start(timer, uvzmq_reaper_timer_callback, 10, 10)
uv_timer_start(S) == [S EXCEPT !.t.state = "active"]

\* uv_timer_stop
uv_timer_stop(S) ==
    [S EXCEPT !.t.state = IF @ = "active" THEN "inited" ELSE @]

\* uv_close(&g_reaper->timer, NULL)
uv_close_timer(S) == [S EXCEPT !.t.state = "closing"]

\* the loop that holds the timer in its handle queue, if any
TimerHeld(S) == S.t.state \in {"inited", "active", "closing"}

\* the reaper is running on loop lp
RunningOn(S, lp) == S.g.alloc /\ S.g.loop = lp /\ S.g.running # 0

\* (variation) uvzmq_reaper_start without the already-started test
uvzmq_reaper_start_Restarting(S, lp, fail) ==
    IF lp = NULL THEN RetR(S, UVZMQ_ERROR_INVALID_PARAM, <<>>)
    ELSE IF ~S.g.alloc /\ fail = "malloc"
    THEN RetR(S, UVZMQ_ERROR_INVALID_PARAM, <<"malloc">>)
    ELSE LET S1 == [S EXCEPT !.g.alloc = TRUE, !.g.loop = lp]
         IN  RetR([uv_timer_start(uv_timer_init(S1, lp))
                      EXCEPT !.g.running = 1],
                  UVZMQ_OK, <<"uv_timer_init", "uv_timer_start">>)

\* fail: the library call that fails, if any
uvzmq_reaper_start(S, lp, fail) ==
    IF lp = NULL THEN RetR(S, UVZMQ_ERROR_INVALID_PARAM, <<>>)
    ELSE IF RunningOn(S, lp) THEN RetR(S, UVZMQ_OK, <<>>)
    ELSE IF ~S.g.alloc /\ fail = "malloc"
    THEN RetR(S, UVZMQ_ERROR_INVALID_PARAM, <<"malloc">>)
    ELSE LET calls0 == IF S.g.alloc THEN <<>> ELSE <<"malloc">>
             S1 == [S EXCEPT !.g.alloc = TRUE, !.g.loop = lp]
             S2 == uv_timer_init(S1, lp)
         IN  CASE fail = "timer_init" ->
                    RetR(S1, UVZMQ_ERROR_INVALID_PARAM,
                         calls0 \o <<"uv_timer_init">>)
               [] fail = "timer_start" ->
                    RetR(uv_close_timer(S2), UVZMQ_ERROR_INVALID_PARAM,
                         calls0 \o <<"uv_timer_init", "uv_timer_start",
                                     "uv_close">>)
               [] OTHER ->
                    RetR([uv_timer_start(S2) EXCEPT !.g.running = 1],
                         UVZMQ_OK,
                         calls0 \o <<"uv_timer_init", "uv_timer_start">>)

uvzmq_reaper_stop(S, lp) ==
    IF lp = NULL \/ ~S.g.alloc \/ S.g.loop # lp
    THEN RetR(S, UVZMQ_ERROR_INVALID_PARAM, <<>>)
    ELSE IF S.g.running = 0 THEN RetR(S, UVZMQ_OK, <<>>)
    ELSE RetR([uv_timer_stop(S) EXCEPT !.g.running = 0], UVZMQ_OK,
              <<"uv_timer_stop">>)

bridgeVars ==
    <<scenario, variant, heapVars, zmqVars, delivered, pc, cur, ev,
      freeCalled, loop_ran>>

\* the program calls uvzmq_reaper_start; uv_timer_init on a handle a loop
\* still holds re-links that handle: the process aborts or runs on
ReaperStart(lp, fail, ub) ==
    /\ ~crashed
    /\ fail = "malloc" => ~g_reaper.alloc
    /\ LET R == uvzmq_reaper_start(Reaper, lp, fail)
           reinit == /\ TimerHeld(Reaper)
                     /\ \E i \in 1..Len(R.calls) : R.calls[i] = "uv_timer_init"
                     /\ fail # "timer_init"
       IN  /\ ub \in (IF reinit THEN {"crash", "stale"} ELSE {"ok"})
           /\ rev' = Rev("start", lp, IF ub = "crash" THEN 0 ELSE R.rc, fail,
                         IF RunningOn(Reaper, lp) THEN 1 ELSE 0,
                         R.calls, ub)
           /\ IF ub = "crash"
              THEN crashed' = TRUE /\ UNCHANGED <<g_reaper, timer, started>>
              ELSE /\ g_reaper' = R.S.g
                   /\ timer' = R.S.t
                   /\ started' = IF lp # NULL /\ R.rc = UVZMQ_OK
                                  THEN [started EXCEPT ![lp] = TRUE]
                                  ELSE started
                   /\ UNCHANGED crashed
    /\ UNCHANGED <<bridgeVars, zmq_pending>>

\* the program calls uvzmq_reaper_stop
ReaperStop(lp) ==
    /\ ~crashed
    /\ LET R == uvzmq_reaper_stop(Reaper, lp)
       IN  /\ g_reaper' = R.S.g
           /\ timer' = R.S.t
           /\ rev' = Rev("stop", lp, R.rc, "none",
                         IF RunningOn(Reaper, lp) THEN 1 ELSE 0,
                         R.calls, "ok")
    /\ UNCHANGED <<bridgeVars, crashed, started, zmq_pending>>

\* uvzmq_reaper_timer_callback: (void)handle and a comment; it calls
\* nothing, so the commands libzmq has queued stay as they are
uvzmq_reaper_timer_callback(pending) == pending

\* the loop of the timer fires it
ReaperTick ==
    /\ ~crashed
    /\ timer.state = "active"
    /\ zmq_pending' = uvzmq_reaper_timer_callback(zmq_pending)
    /\ rev' = Rev("tick", timer.loop, 0, "none", g_reaper.running, <<>>, "ok")
    /\ UNCHANGED <<bridgeVars, crashed, g_reaper, timer, started>>

\* the program calls zmq_close on a ZeroMQ socket: with no I/O thread the
\* cleanup of the socket is queued for a reaper that does not exist
ZmqCloseDeferred ==
    /\ ~crashed
    /\ zmq_pending < MaxPending
    /\ zmq_pending' = zmq_pending + 1
    /\ rev' = Rev("zmq_close", NULL, 0, "none", g_reaper.running, <<>>, "ok")
    /\ UNCHANGED <<bridgeVars, crashed, g_reaper, timer, started>>

\* the loop of the timer completes uv_close (no close callback was given)
ReaperCloseDone ==
    /\ ~crashed
    /\ timer.state = "closing"
    /\ timer' = [timer EXCEPT !.state = "closed"]
    /\ rev' = Rev("closed", timer.loop, 0, "none", g_reaper.running, <<>>,
                  "ok")
    /\ UNCHANGED <<bridgeVars, crashed, g_reaper, started, zmq_pending>>

ReaperNext ==
    \/ \E lp \in ReaperLoops \cup {NULL}, fail \in ReaperFailures,
          ub \in {"ok", "crash", "stale"} : ReaperStart(lp, fail, ub)
    \/ \E lp \in ReaperLoops \cup {NULL} : ReaperStop(lp)
    \/ ReaperTick
    \/ ReaperCloseDone
    \/ ZmqCloseDeferred

ReaperSpec == ReaperInit /\ [][ReaperNext]_vars

ApiSpec == ApiInit /\ [][Next]_vars

DrainSpec == DrainInit /\ [][Next]_vars

\* several bridges on one loop, each on its own socket
MultiInit == scenario = "multi" /\ InitCommon

MultiSpec == MultiInit /\ [][Next]_vars

ReactorHolds(h) == hstate[h] \in {"active", "closing"}

\* C2 as stated: neither the bridge block nor the poll handle block is freed
\* while the reactor still holds the handle (the handle of bridge b is b).
C2_FreedOnlyAfterDetach ==
    \A b \in Bridges :
        (balloc[b] = "freed" \/ halloc[b] = "freed") => ~ReactorHolds(b)

\* the loop has nothing left to dispatch and the bridge of socket 1 is open
Quiescent ==
    /\ pc = "idle" /\ ~crashed /\ loop_ran
    /\ balloc[1] = "live" /\ sock[1].closed = 0 /\ hstate[1] = "active"
    /\ ~edge[1]
    /\ \A h \in Bridges : hstate[h] # "closing"

\* C3 as stated: K messages queued before the loop first runs, no further
\* socket activity, no receive failing: once the first uvzmq_poll_callback
\* invocation has returned and the loop has nothing left to dispatch, every
\* one of the K messages has been delivered exactly once and none stays
\* queued.
C3_AllQueuedDelivered ==
    (/\ Quiescent /\ presend /\ bursts = 1
     /\ cur.b = 1 /\ cur.clean /\ Len(cur.q0) = nsent[1]) =>
        /\ queue[1] = <<>>
        /\ delivered[1] = [i \in 1..nsent[1] |-> i]

\* the last uvzmq_poll_callback invocation has returned, every receive of it
\* having returned a message or EAGAIN, and nothing was sent meanwhile
DrainDone ==
    /\ pc = "idle" /\ cur.b # NULL
    /\ cur.end \in {"EAGAIN", "recheck", "cap"}
    /\ cur.clean

LastDelivered(b, n) ==
    SubSeq(delivered[b], Len(delivered[b]) - n + 1, Len(delivered[b]))

\* C4: a uvzmq_poll_callback invocation that finds N <= 1000 messages queued
\* invokes the user callback exactly N times, in queue order, and leaves the
\* queue empty.
C4_DrainDeliversAll ==
    (DrainDone /\ Len(cur.q0) <= BatchCap) =>
        /\ cur.ncb = Len(cur.q0)
        /\ queue[sock[cur.b].zmq_sock] = <<>>
        /\ LastDelivered(cur.b, cur.ncb) = cur.q0

\* a batched drain of exactly 1000 messages has returned
C4_Witness ==
    /\ DrainDone /\ Batched(variant)
    /\ Len(cur.q0) = BatchCap /\ cur.ncb = BatchCap
    /\ queue[1] = <<>>

\* C5: in the ref-counted implementation, from the return of
\* uvzmq_socket_free until the close callback of the poll handle runs, the
\* bridge block is allocated with ref_count = 1, its poll_handle is null and
\* its loop, socket, descriptor and user-data fields hold the values given
\* at registration; the block is released by on_close_callback, after the
\* close has completed, and by nothing else.
C5_BridgeRetainedUntilCloseCb ==
    variant = "uvzmq_h" =>
        \A b \in Bridges :
            /\ (freeCalled[b] /\ hstate[b] = "closing") =>
                  /\ balloc[b] = "live"
                  /\ sock[b].ref_count = 1
                  /\ sock[b].poll_handle = NULL
                  /\ uvzmq_get_loop(b) = TheLoop
                  /\ uvzmq_get_zmq_socket(b) = SockOfFd(hfd[b])
                  /\ uvzmq_get_fd(b) = hfd[b]
                  /\ uvzmq_get_user_data(b) \in RegUserDatas
            /\ balloc[b] = "freed" =>
                  /\ freedBy[b] = "on_close_callback"
                  /\ hstate[b] = "closed"

\* uvzmq_socket_free has just returned and the close callback is pending
C5_Witness ==
    /\ variant = "uvzmq_h"
    /\ ev.op = "free" /\ ev.rc = UVZMQ_OK /\ ev.flag = 0
    /\ hstate[ev.b] = "closing"
    /\ balloc[ev.b] = "live" /\ sock[ev.b].ref_count = 1
    /\ sock[ev.b].poll_handle = NULL

\* C6 as stated: a second uvzmq_socket_free on the same bridge pointer, with
\* no uvzmq_socket_new in between, returns UVZMQ_ERROR_INVALID_PARAM.
C6_SecondFreeRejected ==
    (ev.op = "free" /\ ev.flag = 1) => ev.rc = UVZMQ_ERROR_INVALID_PARAM

\* C6, amended: uvzmq_socket_free returns UVZMQ_ERROR_INVALID_PARAM for a null
\* pointer and for nothing else. A second call on the same non-null pointer
\* returns UVZMQ_OK and leaves the bridge as the first call left it when the
\* block is still allocated (the ref-counted implementation, close callback
\* pending); when the block is already released the call works on freed
\* memory.
C6_OnlyNullFreeRejected ==
    ev.op = "free" =>
        /\ ev.rc = UVZMQ_ERROR_INVALID_PARAM <=> ev.b = NULL
        /\ (ev.flag = 1 /\ ~ev.ub) =>
              /\ variant = "uvzmq_h"
              /\ ev.rc = UVZMQ_OK
              /\ balloc[ev.b] = "live" /\ halloc[ev.b] = "live"
              /\ hstate[ev.b] = "closing"
              /\ hcb[ev.b] = "on_close_callback"
              /\ sock[ev.b].ref_count = 1
              /\ sock[ev.b].poll_handle = NULL
        /\ (ev.flag = 1 /\ ev.ub) => variant # "uvzmq_h" \/ hstate[ev.b] = "closed"

\* a second free on the same pointer has just returned UVZMQ_OK
C6_Witness ==
    /\ ev.op = "free" /\ ev.flag = 1 /\ ev.b # NULL
    /\ ev.rc = UVZMQ_OK /\ ~ev.ub
    /\ variant = "uvzmq_h" /\ hstate[ev.b] = "closing"

\* C7: uvzmq_socket_close on a bridge whose closed flag is 0 returns UVZMQ_OK
\* and sets the flag; on a bridge whose flag is set (and whose block is not
\* released) it returns a failure code and leaves the flag set.
C7_CloseOnceThenRejected ==
    (ev.op = "close" /\ ev.b # NULL) =>
        /\ ev.flag = 0 => ev.rc = UVZMQ_OK
        /\ ev.flag # 0 => ev.rc # UVZMQ_OK
        /\ sock[ev.b].closed = 1

\* a second close on a bridge not yet freed has just been rejected
C7_Witness ==
    /\ ev.op = "close" /\ ev.flag = 1
    /\ ev.rc = UVZMQ_ERROR_INVALID_PARAM
    /\ ~freeCalled[ev.b] /\ sock[ev.b].closed = 1

C9_NoPollingAfterClose ==
    /\ \A b \in Bridges :
          (balloc[b] = "live" /\ sock[b].closed = 1 /\ ~freeCalled[b]) =>
              hstate[b] # "active"
    /\ cur.b # NULL => cur.entry_closed = 0

\* C10: uvzmq_socket_free on an allocated bridge returns UVZMQ_OK whether the
\* closed flag is 0 or 1 at the call, and leaves the flag set and the poll
\* handle detached from the bridge; a bridge whose handle is no longer
\* polled has its closed flag set.
C10_FreeSucceedsFromOpenOrClosing ==
    /\ (ev.op = "free" /\ ev.b # NULL /\ ~ev.ub) =>
          /\ ev.why \in {"open", "closing"}
          /\ ev.rc = UVZMQ_OK
          /\ sock[ev.b].closed = 1
          /\ sock[ev.b].poll_handle = NULL
          /\ hstate[ev.b] # "active"
    /\ \A b \in Bridges :
          (/\ balloc[b] # "none" /\ freedBy[b] # "uvzmq_socket_new"
           /\ hstate[b] # "active") => sock[b].closed = 1

\* free has just succeeded on a bridge that close had closed before
C10_Witness ==
    /\ ev.op = "free" /\ ev.why = "closing" /\ ev.flag = 0
    /\ ev.rc = UVZMQ_OK /\ ~ev.ub
    /\ sock[ev.b].closed = 1

\* the messages of socket s handed to the user callbacks of its bridges
DeliveredFrom(s) ==
    UNION {{delivered[b][i] : i \in 1..Len(delivered[b])} :
              b \in {x \in Bridges : balloc[x] # "none" /\ sock[x].zmq_sock = s}}

Queued(s) == {queue[s][i] : i \in 1..Len(queue[s])}

\* C11: uvzmq_socket_close and uvzmq_socket_free never close or change the
\* ZeroMQ socket: after any sequence of uvzmq_socket_new, close and free
\* calls every socket is open, the descriptor query on the socket of the
\* bridge just closed or freed still returns the descriptor recorded at
\* registration, and every message sent to a socket is either still queued
\* on it or was handed to a user callback.
C11_SocketUntouchedByCloseAndFree ==
    /\ \A s \in Sockets :
          /\ zmq_open[s]
          /\ Queued(s) \cup DeliveredFrom(s) = 1..nsent[s]
          /\ Queued(s) \cap DeliveredFrom(s) = {}
    /\ (ev.op \in {"close", "free"} /\ ev.b # NULL /\ ~ev.ub) =>
          /\ uvzmq_get_zmq_socket(ev.b) \in Sockets
          /\ zmq_open[uvzmq_get_zmq_socket(ev.b)]
          /\ FdOf(uvzmq_get_zmq_socket(ev.b)) = uvzmq_get_fd(ev.b)

\* free has just returned on a bridge whose socket still holds messages
C11_Witness ==
    /\ ev.op = "free" /\ ev.rc = UVZMQ_OK /\ ~ev.ub /\ ev.why = "closing"
    /\ zmq_open[sock[ev.b].zmq_sock]
    /\ queue[sock[ev.b].zmq_sock] # <<>>
    /\ hstate[ev.b] # "active"

\* C12: uvzmq_socket_close called by the user callback does not interrupt
\* the running uvzmq_poll_callback invocation: the receive loop goes on after
\* a callback that ran with the flag set exactly as it would with the flag
\* clear, and an invocation in which a callback closed the bridge delivers
\* every message it found queued, in order; once the invocation has
\* returned the entry test fails for every later readiness event, and an
\* invocation entered with the flag set delivers nothing.
C12_CloseInCallbackTakesEffectNextEvent ==
    /\ (/\ ev.op = "recv_cb" /\ ~ev.ub
         /\ sock[ev.b].closed # 0 /\ ~freeCalled[ev.b]) =>
          IF cur.end = "" THEN pc = "drain"
          ELSE /\ Batched(variant)
               /\ cur.end \in {"recheck", "cap"}
               /\ cur.batch_count >= RecheckEvery
    /\ (/\ DrainDone /\ cur.cb_teardown /\ ~freeCalled[cur.b]
         /\ Len(cur.q0) <= BatchCap) =>
          /\ cur.ncb = Len(cur.q0)
          /\ LastDelivered(cur.b, cur.ncb) = cur.q0
          /\ queue[sock[cur.b].zmq_sock] = <<>>
    /\ (/\ pc = "idle" /\ cur.b # NULL /\ cur.cb_teardown
         /\ balloc[cur.b] = "live") =>
          ~EntersDrain(sock[cur.b], UV_READABLE)
    /\ (cur.b # NULL /\ cur.entry_closed # 0) =>
          /\ cur.ncb = 0 /\ pc = "idle" /\ cur.end = "closed"

\* a drain of two messages whose first callback closed the bridge has
\* returned: both were delivered and the handle is still polled
C12_Witness ==
    /\ DrainDone /\ cur.cb_teardown /\ ~freeCalled[cur.b]
    /\ cur.entry_closed = 0 /\ sock[cur.b].closed = 1
    /\ cur.ncb = 2 /\ delivered[cur.b] = <<1, 2>>
    /\ ev.op = "recv_fail" /\ ev.why = "EAGAIN" /\ ev.flag = 1
    /\ hstate[cur.b] = "active"

\* C13 as stated: a uvzmq_poll_callback invocation makes at most 1000 user
\* callback invocations and has returned to the loop after the 1000th.
C13_AtMostBatchCapCallbacks ==
    /\ cur.ncb <= BatchCap
    /\ cur.ncb = BatchCap => pc = "idle"

\* C14: a zmq_msg_recv failure other than EAGAIN or EINTR ends only the
\* running uvzmq_poll_callback invocation: control is back with the loop,
\* the bridge is allocated with its closed flag 0, its poll handle allocated
\* and active, the messages not yet received stay queued, and the entry test
\* of the callback passes at the next readiness event.
C14_RecvFailureEndsOnlyThisDrain ==
    (/\ ev.op = "recv_fail" /\ ~(ev.why \in {"EAGAIN", "EINTR"})
     /\ ~ev.ub /\ ~cur.cb_teardown) =>
        /\ pc = "idle" /\ ~crashed
        /\ cur.end = ev.why
        /\ balloc[ev.b] = "live" /\ sock[ev.b].closed = 0
        /\ sock[ev.b].poll_handle # NULL
        /\ halloc[sock[ev.b].poll_handle] = "live"
        /\ hstate[sock[ev.b].poll_handle] = "active"
        /\ hdata[sock[ev.b].poll_handle] = ev.b
        /\ Len(queue[sock[ev.b].zmq_sock]) + cur.ncb >= Len(cur.q0)
        /\ EntersDrain(sock[ev.b], UV_READABLE)

\* a drain has just ended on a hard receive failure with a message still
\* queued and the readiness notification still pending
C14_Witness ==
    /\ ev.op = "recv_fail" /\ ev.why = "EFAULT" /\ ~ev.ub
    /\ pc = "idle" /\ cur.ncb = 0
    /\ queue[sock[ev.b].zmq_sock] # <<>> /\ edge[sock[ev.b].zmq_sock]
    /\ hstate[ev.b] = "active" /\ sock[ev.b].closed = 0

\* C15: uvzmq_socket_new called with a null loop, a null ZeroMQ socket or a
\* null output pointer returns UVZMQ_ERROR_INVALID_PARAM, does not write the
\* output pointer (the caller's null stays), makes no malloc call, and
\* leaves every bridge block, every poll handle and the loop's handles as
\* they were.
C15_NullArgumentRejected ==
    [][(ev'.op = "new" /\ ev'.why = "null_arg") =>
          /\ ev'.rc = UVZMQ_ERROR_INVALID_PARAM
          /\ ev'.flag = 0 /\ ev'.b = NULL
          /\ ev'.calls = <<>>
          /\ UNCHANGED <<heapVars, zmqVars, delivered, pc, crashed>>]_vars

\* uvzmq_socket_new has just rejected a null argument on a loop with no
\* bridge and a message already queued on the socket
C15_Witness ==
    /\ ev.op = "new" /\ ev.why = "null_arg"
    /\ ev.rc = UVZMQ_ERROR_INVALID_PARAM /\ ev.b = NULL
    /\ \A b \in Bridges :
          balloc[b] = "none" /\ halloc[b] = "none" /\ hstate[b] = "none"
    /\ nsent[1] > 0

\* C16: a uvzmq_socket_new call that returns UVZMQ_OK was given a non-null
\* loop and socket and stores a non-null bridge: allocated, closed flag 0,
\* the accessors returning the loop, socket and user data supplied and the
\* descriptor the socket reports for ZMQ_FD; its poll handle is non-null,
\* allocated, polled by the loop on that descriptor, with handle->data the
\* bridge.
C16_RegisteredBridgeIsOpenAndWired ==
    [][\A b \in RegBridges, lp \in RegLoops, s \in RegSockets,
          cb \in RegCallbacks, ud \in RegUserDatas, out \in RegOuts,
          fail \in RegFailures :
            (Register(b, lp, s, cb, ud, out, fail) /\ ev'.rc = UVZMQ_OK) =>
                /\ lp # NULL /\ s # NULL /\ out /\ fail = "none"
                /\ ev'.flag = 1 /\ ev'.b = b /\ b # NULL
                /\ balloc'[b] = "live"
                /\ sock'[b].closed = 0
                /\ sock'[b].on_recv = cb
                /\ uvzmq_get_loop(b)' = lp
                /\ uvzmq_get_zmq_socket(b)' = s
                /\ uvzmq_get_user_data(b)' = ud
                /\ uvzmq_get_fd(b)' = FdOf(s)
                /\ sock'[b].poll_handle # NULL
                /\ halloc'[sock'[b].poll_handle] = "live"
                /\ hstate'[sock'[b].poll_handle] = "active"
                /\ hfd'[sock'[b].poll_handle] = FdOf(s)
                /\ hdata'[sock'[b].poll_handle] = b]_vars

\* uvzmq_socket_new has just succeeded with a null callback and non-null
\* user data
C16_Witness ==
    /\ ev.op = "new" /\ ev.rc = UVZMQ_OK /\ ev.b # NULL /\ ev.flag = 1
    /\ ~sock[ev.b].on_recv
    /\ uvzmq_get_user_data(ev.b) = 7
    /\ uvzmq_get_loop(ev.b) = TheLoop
    /\ uvzmq_get_fd(ev.b) = FdOf(uvzmq_get_zmq_socket(ev.b))
    /\ hstate[sock[ev.b].poll_handle] = "active"
    /\ hdata[sock[ev.b].poll_handle] = ev.b

\* the number of entries of the call list cs equal to c
Count(cs, c) == Cardinality({i \in 1..Len(cs) : cs[i] = c})

\* C17: when uvzmq_socket_new fails after the argument check (ZMQ_FD query,
\* handle malloc, uv_poll_init or uv_poll_start), it returns a negative
\* status, does not write the output pointer, leaves no handle polled by
\* the loop, and every block it malloc'ed it has freed exactly once: no
\* block of the call stays allocated.
C17_FailedRegisterReleasesEverything ==
    [][\A b \in RegBridges :
          (/\ ev'.op = "new"
           /\ ev'.why \in {"getsockopt", "malloc_handle", "poll_init",
                            "poll_start"}
           /\ balloc[b] = "none") =>
              /\ ev'.rc < 0
              /\ ev'.flag = 0 /\ ev'.b = NULL
              /\ Count(ev'.calls, "malloc_sock") = 1
              /\ Count(ev'.calls, "free_sock") = 1
              /\ Count(ev'.calls, "malloc_handle") <= 1
              /\ Count(ev'.calls, "free_handle")
                    = Count(ev'.calls, "malloc_handle")
              /\ balloc'[b] = "freed" /\ halloc'[b] \in {"none", "freed"}
              /\ (halloc'[b] = "freed") <=>
                    (Count(ev'.calls, "malloc_handle") = 1)
              /\ \A h \in Bridges :
                    /\ hstate'[h] = "active" => hstate[h] = "active"
                    /\ h # b => halloc'[h] = halloc[h] /\ balloc'[h] = balloc[h]
              /\ UNCHANGED <<zmqVars, delivered, pc, crashed>>]_vars

\* uvzmq_socket_new has just failed at uv_poll_start: both blocks are
\* released and the handle is being closed
C17_Witness ==
    /\ ev.op = "new" /\ ev.why = "poll_start" /\ ev.rc < 0 /\ ev.flag = 0
    /\ balloc[1] = "freed" /\ halloc[1] = "freed"
    /\ hstate[1] = "closing"
    /\ Len(ev.calls) = 4

\* C18: given a null bridge, uvzmq_get_zmq_socket, uvzmq_get_loop and
\* uvzmq_get_user_data return null and uvzmq_get_fd returns -1, whatever the
\* state; uvzmq_socket_close and uvzmq_socket_free return
\* UVZMQ_ERROR_INVALID_PARAM and leave every bridge, every handle, the
\* sockets and the deliveries as they were.
C18_NullBridgeRejectedWithoutEffect ==
    [][/\ uvzmq_get_zmq_socket(NULL)' = NULL
       /\ uvzmq_get_loop(NULL)' = NULL
       /\ uvzmq_get_user_data(NULL)' = NULL
       /\ uvzmq_get_fd(NULL)' = 0 - 1
       /\ (ev'.op \in {"close", "free"} /\ ev'.b = NULL) =>
             /\ ev'.rc = UVZMQ_ERROR_INVALID_PARAM
             /\ ~ev'.ub
             /\ UNCHANGED <<heapVars, zmqVars, delivered, pc, crashed,
                            freeCalled, loop_ran>>]_vars

\* uvzmq_socket_close(NULL) has just been rejected while a bridge is open
\* and polled
C18_Witness ==
    /\ ev.op = "close" /\ ev.b = NULL
    /\ ev.rc = UVZMQ_ERROR_INVALID_PARAM
    /\ balloc[1] = "live" /\ sock[1].closed = 0 /\ hstate[1] = "active"
    /\ uvzmq_get_fd(NULL) = 0 - 1 /\ uvzmq_get_fd(1) = FdOf(1)

\* C19: uvzmq_reaper_start on a loop on which the reaper is already running
\* returns 0 and changes nothing: it makes no malloc, uv_timer_init or
\* uv_timer_start call, and g_reaper and its timer keep their values.
C19_RestartOfRunningReaperIsNoOp ==
    [][(rev'.op = "start" /\ rev'.flag = 1) =>
          /\ rev'.rc = UVZMQ_OK
          /\ rev'.calls = <<>>
          /\ ~rev'.ub
          /\ g_reaper'.running = 1 /\ g_reaper'.loop = rev'.loop
          /\ UNCHANGED <<g_reaper, timer, crashed>>]_vars

\* a second uvzmq_reaper_start on the loop of the running reaper has just
\* returned 0, the timer still active on that loop
C19_Witness ==
    /\ rev.op = "start" /\ rev.flag = 1 /\ rev.rc = UVZMQ_OK
    /\ rev.calls = <<>>
    /\ g_reaper.alloc /\ g_reaper.running = 1 /\ g_reaper.loop = rev.loop
    /\ timer = [state |-> "active", loop |-> rev.loop]

\* C20 as stated: uvzmq_reaper_stop(loop) returns a failure code whenever no
\* uvzmq_reaper_start(loop) has returned 0 before it.
C20_StopWithoutStartRejected ==
    (rev.op = "stop" /\ (rev.loop = NULL \/ ~started[rev.loop])) =>
        rev.rc = UVZMQ_ERROR_INVALID_PARAM

\* C21 as stated: while the reaper runs, each tick of its timer lets the
\* cleanup commands libzmq has queued make progress: a tick that finds
\* commands pending leaves fewer of them.
C21_TickProcessesPendingCommands ==
    [][(rev'.op = "tick" /\ zmq_pending > 0) =>
          zmq_pending' < zmq_pending]_vars

\* C22 as stated: a zmq_msg_recv failing with EINTR ends the
\* uvzmq_poll_callback invocation as one failing with EAGAIN does: the same
\* calls before the break, nothing printed, and (no callback of the
\* invocation having closed or freed the bridge) the bridge allocated with
\* its closed flag 0 and its handle active.
C22_InterruptedEndsLikeWouldBlock ==
    (ev.op = "recv_fail" /\ ev.why = "EINTR" /\ ~ev.ub) =>
        /\ pc = "idle" /\ cur.end = "EINTR"
        /\ ev.calls = RecvFailCalls(variant, "EAGAIN")
        /\ \A i \in 1..Len(ev.calls) : ev.calls[i] # "fprintf"
        /\ ~cur.cb_teardown =>
              /\ balloc[ev.b] = "live" /\ sock[ev.b].closed = 0
              /\ hstate[ev.b] = "active"

\* C23: once uvzmq_socket_free has returned for a bridge, no step invokes
\* uvzmq_poll_callback for that bridge and no step hands a message to its
\* user callback, whatever is queued or arrives later
C23_NoDispatchNoCallbackAfterFree ==
    [][\A b \in Bridges :
          freeCalled[b] =>
              /\ delivered'[b] = delivered[b]
              /\ ~(pc = "idle" /\ cur'.b = b)]_vars

\* C24: in the ref-counted implementation a freed bridge waits for the loop
\* with its handle closing, both blocks allocated and exactly one reference
\* held; the loop iteration that runs on_close_callback releases the handle
\* and the bridge, and nothing else releases either; this holds for every
\* bridge, however many were freed before the loop ran
C24_CloseCallbackReleasesBothOnce ==
    (variant = "uvzmq_h" /\ scenario = "lifecycle") =>
        \A b \in Bridges :
            /\ freeCalled[b] => hstate[b] \in {"closing", "closed"}
            /\ hstate[b] = "closing" =>
                  /\ hcb[b] = "on_close_callback" /\ hdata[b] = b
                  /\ halloc[b] = "live" /\ balloc[b] = "live"
                  /\ sock[b].ref_count = 1 /\ sock[b].poll_handle = NULL
            /\ hstate[b] = "closed" =>
                  /\ halloc[b] = "freed" /\ balloc[b] = "freed"
                  /\ freedBy[b] = "on_close_callback"
                  /\ sock[b].ref_count = 0
            /\ (halloc[b] = "freed" \/ balloc[b] = "freed") =>
                  hstate[b] = "closed"

C24_Witness ==
    /\ variant = "uvzmq_h" /\ ~crashed
    /\ \A b \in Bridges :
          /\ freeCalled[b] /\ hstate[b] = "closed"
          /\ halloc[b] = "freed" /\ freedBy[b] = "on_close_callback"
    /\ \A s \in Sockets : nsent[s] = 0

\* uv_loop_close as the last step of the documented cleanup order: libuv
\* refuses (UV_EBUSY) while a handle initialised on the loop has not
\* completed uv_close
uv_loop_close(H) ==
    IF \E h \in Bridges : H.hstate[h] \in {"inited", "active", "closing"}
    THEN "UV_EBUSY" ELSE "ok"

\* C25: when uvzmq_socket_free has just returned for the last registered
\* bridge and the program goes on to zmq_close, zmq_ctx_term and
\* uv_loop_close without running the loop, no bridge block and no handle
\* block is still allocated and uv_loop_close finds no handle on the loop
C25_CleanupOrderReleasesEverything ==
    (/\ scenario = "lifecycle" /\ ev.op = "free" /\ ev.b # NULL /\ ~ev.ub
     /\ \A b \in Bridges : balloc[b] # "none" => freeCalled[b]) =>
        /\ \A b \in Bridges : balloc[b] # "live" /\ halloc[b] # "live"
        /\ uv_loop_close(Heap) = "ok"

\* C26: a step that dispatches uvzmq_poll_callback to a bridge whose closed
\* flag is set receives nothing and invokes no callback: the queue, the
\* descriptor's signal and the delivered messages are as before the step,
\* and the callback has returned
C26_ClosingBridgeDispatchTouchesNothing ==
    [][(pc = "idle" /\ cur'.b # NULL /\ sock[cur'.b].closed # 0) =>
          /\ queue' = queue /\ edge' = edge /\ delivered' = delivered
          /\ pc' = "idle" /\ cur'.ncb = 0 /\ cur'.end = "closed"
          /\ UNCHANGED heapVars]_vars

C26_Witness ==
    /\ pc = "idle" /\ cur.b # NULL /\ cur.entry_closed # 0
    /\ balloc[cur.b] = "live" /\ hstate[cur.b] = "active"
    /\ queue[sock[cur.b].zmq_sock] # <<>>
    /\ cur.q0 = queue[sock[cur.b].zmq_sock]

\* C27: uvzmq_socket_new with a null on_recv and otherwise valid arguments
\* succeeds and leaves an open, polling bridge; a dispatch of
\* uvzmq_poll_callback to a bridge without a callback receives nothing:
\* the queue and the delivered messages are as before the step
C27_NullCallbackBridgeNeverReceives ==
    [][/\ \A b \in RegBridges, ud \in RegUserDatas :
             Register(b, TheLoop, 1, FALSE, ud, TRUE, "none") =>
                 /\ ev'.rc = UVZMQ_OK /\ ev'.b = b
                 /\ balloc'[b] = "live" /\ sock'[b].closed = 0
                 /\ ~sock'[b].on_recv
                 /\ hstate'[sock'[b].poll_handle] = "active"
       /\ (pc = "idle" /\ cur'.b # NULL /\ ~sock[cur'.b].on_recv) =>
             /\ queue' = queue /\ edge' = edge /\ delivered' = delivered
             /\ pc' = "idle" /\ cur'.ncb = 0
             /\ cur'.end \in {"closed", "no_event", "no_cb"}
             /\ UNCHANGED heapVars
       /\ \A b \in Bridges :
             (balloc[b] = "live" /\ ~sock[b].on_recv) =>
                 delivered'[b] = <<>>]_vars

C27_Witness ==
    /\ pc = "idle" /\ cur.b # NULL /\ cur.end = "no_cb"
    /\ balloc[cur.b] = "live" /\ sock[cur.b].closed = 0
    /\ ~sock[cur.b].on_recv
    /\ hstate[cur.b] = "active"
    /\ queue[sock[cur.b].zmq_sock] # <<>>
    /\ cur.q0 = queue[sock[cur.b].zmq_sock]

\* C28: in a drain, zmq_getsockopt(ZMQ_EVENTS) is called after the 50th,
\* 100th, ..., 1000th delivery and after no other; the drain leaves the
\* loop at once when the call succeeds with ZMQ_POLLIN clear, and goes on
\* (up to the batch cap) when the call fails or reports ZMQ_POLLIN
C28_RecheckEveryFiftiethOnly ==
    (ev.op = "recv_cb" /\ ~ev.ub) =>
        /\ ev.query # "" =>
              /\ cur.ncb % RecheckEvery = 0
              /\ cur.ncb >= RecheckEvery /\ cur.ncb <= BatchCap
        /\ (Batched(variant) /\ cur.ncb % RecheckEvery = 0) => ev.query # ""
        /\ ev.query = "empty" => pc = "idle" /\ cur.end = "recheck"
        /\ ev.query \in {"failed", "pollin", ""} =>
              /\ cur.end # "recheck"
              /\ cur.ncb < BatchCap => pc = "drain"

C28_Witness ==
    /\ ev.op = "recv_cb" /\ ~ev.ub /\ ev.query = "empty"
    /\ cur.ncb = RecheckEvery /\ cur.ncb < BatchCap
    /\ pc = "idle" /\ cur.end = "recheck"
    /\ queue[sock[cur.b].zmq_sock] = <<>>

\* the sequence 1, 2, ..., n: what the peer has sent to a socket, in order
SentTo(n) == [i \in 1..n |-> i]

\* C29: whatever drains have run for a bridge and however each ended, the
\* messages handed to its callback so far, followed by the messages still
\* queued on its socket, are the messages the socket received, in order and
\* each once: the delivered sequence is a prefix of the received one
C29_DeliveredIsPrefixOfReceived ==
    \A b \in Bridges :
        (scenario = "drain" /\ balloc[b] # "none") =>
            /\ delivered[b] \o queue[sock[b].zmq_sock]
                  = SentTo(nsent[sock[b].zmq_sock])
            /\ delivered[b] = SentTo(Len(delivered[b]))
            /\ Len(delivered[b]) <= nsent[sock[b].zmq_sock]

\* a second drain has taken up where an early re-check stop left off
C29_Witness ==
    /\ scenario = "drain" /\ Batched(variant) /\ pc = "idle"
    /\ cur.b # NULL /\ cur.ncb = 1 /\ cur.q0 = <<RecheckEvery + 1>>
    /\ delivered[cur.b] = SentTo(RecheckEvery + 1)
    /\ nsent[sock[cur.b].zmq_sock] = RecheckEvery + 1

\* C30: uvzmq_socket_new on the socket and loop of a bridge that has been
\* closed and freed succeeds, also while the old handle is still waiting
\* for its close callback; the new bridge is open with a handle of its own
\* that is polling, and stays so whatever happens to the old bridge
C30_RegisterAgainAfterFree ==
    scenario = "lifecycle" =>
        /\ ev.op = "new" =>
              /\ ev.rc = UVZMQ_OK /\ ev.b # NULL /\ ev.flag = 1
              /\ sock[ev.b].closed = 0 /\ sock[ev.b].ref_count = 0
              /\ delivered[ev.b] = <<>>
              /\ \A b1 \in Bridges \ {ev.b} :
                    (balloc[b1] # "none" /\ freeCalled[b1]) =>
                        /\ sock[ev.b].poll_handle # b1
                        /\ hdata[b1] = b1
                        /\ hstate[b1] # "active"
        /\ \A b \in Bridges :
              (balloc[b] = "live" /\ sock[b].closed = 0) =>
                  /\ sock[b].poll_handle # NULL
                  /\ hstate[sock[b].poll_handle] = "active"
                  /\ halloc[sock[b].poll_handle] = "live"
                  /\ hdata[sock[b].poll_handle] = b
                  /\ hfd[sock[b].poll_handle] = FdOf(sock[b].zmq_sock)

\* the second bridge has just been registered on the socket of the first,
\* which was freed and whose handle the loop has not yet closed
C30_Witness ==
    /\ ev.op = "new" /\ ev.rc = UVZMQ_OK /\ ev.b = 2
    /\ freeCalled[1] /\ sock[1].closed = 1
    /\ sock[1].zmq_sock = sock[2].zmq_sock /\ sock[1].loop = sock[2].loop
    /\ hstate[1] = "closing" /\ hstate[2] = "active"
    /\ sock[2].closed = 0 /\ balloc[2] = "live"
    /\ \A s \in Sockets : nsent[s] = 0

\* C31: a uvzmq_socket_close or uvzmq_socket_free call on one bridge leaves
\* every other bridge as it was: its fields (the closed flag among them),
\* its blocks, its poll handle and that handle's registration, the messages
\* handed to its callback and the queue of its socket
C31_OtherBridgesUntouched ==
    [][\A b \in Bridges :
          (/\ pc = "idle" /\ ev'.op \in {"close", "free"} /\ ev'.b = b
           /\ ~ev'.ub) =>
              \A x \in Bridges \ {b} :
                  /\ sock'[x] = sock[x]
                  /\ balloc'[x] = balloc[x] /\ halloc'[x] = halloc[x]
                  /\ hstate'[x] = hstate[x] /\ hdata'[x] = hdata[x]
                  /\ hfd'[x] = hfd[x] /\ hcb'[x] = hcb[x]
                  /\ delivered'[x] = delivered[x]
                  /\ queue' = queue /\ edge' = edge]_vars

\* one bridge has just been freed while another, on the same loop, is open
\* and polling and has had a message delivered
C31_Witness ==
    /\ scenario = "multi"
    /\ ev.op = "free" /\ ev.b = 1 /\ ev.rc = UVZMQ_OK /\ ~ev.ub
    /\ balloc[2] = "live" /\ sock[2].closed = 0
    /\ sock[2].loop = sock[1].loop
    /\ hstate[2] = "active" /\ delivered[2] # <<>>

\* C32: a bridge block is created with the closed flag 0; while the block
\* is allocated a set flag is never cleared; a released block is never
\* live again; and the flag of an open bridge is set, or its block
\* released, only by a step in which uvzmq_socket_close or
\* uvzmq_socket_free is called on that bridge, never by a loop iteration
C32_LifecycleOnlyMovesForward ==
    [][\A b \in Bridges :
          /\ (balloc[b] = "none" /\ balloc'[b] # "none") =>
                balloc'[b] = "live" /\ sock'[b].closed = 0
          /\ (balloc[b] = "live" /\ sock[b].closed # 0) =>
                sock'[b].closed # 0 /\ balloc'[b] # "none"
          /\ balloc[b] = "freed" =>
                balloc'[b] = "freed" /\ sock'[b].closed # 0
          /\ (balloc[b] = "live" /\ sock[b].closed = 0
              /\ (sock'[b].closed # 0 \/ balloc'[b] # "live")) =>
                /\ ev'.b = b /\ sock'[b].closed # 0
                /\ \/ ev'.op \in {"close", "free"}
                   \/ ev'.op = "recv_cb" /\ ev'.why \in {"close", "free"}]_vars

\* the loop has dispatched to a bridge that was closed before and has found
\* the flag still set, while messages wait on its socket
C32_Witness ==
    /\ scenario = "lifecycle" /\ pc = "idle" /\ ~crashed
    /\ cur.b # NULL /\ cur.end = "closed" /\ cur.entry_closed = 1
    /\ balloc[cur.b] = "live" /\ sock[cur.b].closed = 1
    /\ ~freeCalled[cur.b]
    /\ nsent[sock[cur.b].zmq_sock] > 0

\* a step in which uvzmq_socket_free is called on bridge b, by the main
\* program or by the user callback
FreeStep(b) ==
    \/ pc = "idle" /\ ev'.op = "free" /\ ev'.b = b
    \/ /\ pc = "drain" /\ ev'.op = "recv_cb" /\ ev'.why = "free"
       /\ ev'.b = b /\ delivered'[b] # delivered[b]

\* C33: in the ref-counted implementation ref_count is 0 or 1 at all
\* times; uv_close is called on a poll handle only by a free that finds it
\* neither closing nor closed, and that free takes ref_count from 0 to 1;
\* a further free on the bridge before the close callback has run calls
\* neither uv_poll_stop nor uv_close and changes nothing
C33_OneReferenceOneClose ==
    [][variant = "uvzmq_h" =>
          \A b \in Bridges :
              /\ sock'[b].ref_count \in {0, 1}
              /\ (FreeStep(b) /\ Count(ev'.calls, "uv_close") > 0) =>
                    /\ Count(ev'.calls, "uv_close") = 1
                    /\ hstate[b] \notin {"closing", "closed"}
                    /\ sock[b].ref_count = 0 /\ sock'[b].ref_count = 1
                    /\ hstate'[b] = "closing"
              /\ (FreeStep(b) /\ freeCalled[b] /\ balloc[b] = "live") =>
                    /\ ev'.calls = <<>>
                    /\ UNCHANGED heapVars]_vars

\* a second uvzmq_socket_free has just returned while the close callback of
\* the first is still pending
C33_Witness ==
    /\ variant = "uvzmq_h" /\ ev.op = "free" /\ ev.flag = 1 /\ ~ev.ub
    /\ ev.rc = UVZMQ_OK /\ ev.calls = <<>>
    /\ balloc[ev.b] = "live" /\ hstate[ev.b] = "closing"
    /\ sock[ev.b].ref_count = 1

\* C34: every turn of the receive loop initialises one message; when the
\* receive fails, with EAGAIN, EINTR or any other errno, the turn calls
\* zmq_msg_close on it exactly once, and when the message is handed to the
\* user callback the turn does not call zmq_msg_close at all
C34_MessageReleasedExactlyOnce ==
    /\ (ev.op = "recv_fail" /\ ~ev.ub) =>
          Count(ev.calls, "zmq_msg_close") = 1
    /\ (ev.op = "recv_cb" /\ ~ev.ub) =>
          Count(ev.calls, "zmq_msg_close") = 0

\* C35: while uv_close has been requested on a poll handle and the loop has
\* not completed it, the handle's block is still allocated
C35_ClosingHandleNotFreed ==
    \A h \in Bridges : hstate[h] = "closing" => halloc[h] = "live"

\* C36: a uvzmq_reaper_start call that reaches uv_timer_init finds the
\* timer handle held by no loop: never initialised, or closed and done
C36_TimerNotInitialisedWhileHeld ==
    [][(rev'.op = "start" /\ Count(rev'.calls, "uv_timer_init") > 0) =>
          ~TimerHeld(Reaper)]_vars

====
